---- MODULE Spec2Model ----
(***************************************************************************)
(* Model of the advanced-charts rendering dispatch of the email report     *)
(* dashboard (static/js/advanced-charts.js and the chart library file      *)
(* charts.js).  One call of initializeAdvancedCharts is one action; the    *)
(* page (the five chart slots of the DOM) is the state.                    *)
(*                                                                         *)
(* JavaScript values are modelled as follows.                              *)
(*  - A payload field is a record [kind, items]: kind "absent" is          *)
(*    undefined/null, "junk" is a truthy value that is not an array,       *)
(*    "array" is an array whose elements are items.                        *)
(*  - A missing numeric property is the value Undefined; `v || 0` and      *)
(*    `v > 0` are the operators OrZero and GT0.                            *)
(*  - Strings (contact labels) are sequences of character codes.           *)
(*  - Real numbers are kept exact: the bubble radius r is carried as       *)
(*    4*r*r, the heat-map intensity as a fraction num/den.                 *)
(***************************************************************************)
EXTENDS Integers, Sequences, FiniteSets, TLC

\* the dashboard charts (advanced-charts.js)
VARIABLES data, dom, charts, plan, prevDom, prevCharts, prevPlan, repeated,
          caught, failedAt, propagated, renders

\* a function wrapped by debounce (main.js)
VARIABLES dTimers, dTimeout, dNextId, dLastArgs, dBurst, dCalls, dEvents

\* the page chrome: sidebar and dark mode (main.js)
VARIABLES loaded, width, collapsed, sidebarPref, resizeTimer, navTimer, lastOp,
          darkPref, darkChecked, theme, darkClass, lastChange

\* the report form: the two include checkboxes and the date range (main.js)
VARIABLES incSent, incReceived, startDate, endDate, formOp, prevSent, prevReceived,
          prevStart, prevEnd, typed, alerted

chartVars == <<data, dom, charts, plan, prevDom, prevCharts, prevPlan, repeated,
               caught, failedAt, propagated, renders>>
debounceVars == <<dTimers, dTimeout, dNextId, dLastArgs, dBurst, dCalls, dEvents>>
pageVars == <<loaded, width, collapsed, sidebarPref, resizeTimer, navTimer, lastOp,
              darkPref, darkChecked, theme, darkClass, lastChange>>
formVars == <<incSent, incReceived, startDate, endDate, formOp, prevSent, prevReceived,
              prevStart, prevEnd, typed, alerted>>
vars == <<chartVars, debounceVars, pageVars, formVars>>

---------------------------------------------------------------------------
(* Bounds of the model *)
MaxRenders == 2
MaxHourly == 2
MaxShort == 2
MaxContactsLen == 9
MaxWords == 2
MaxHeatLen == 2
MaxWordsLen == 21
MaxEvents == 4
MaxDay == 3

---------------------------------------------------------------------------
(* JavaScript value helpers *)
Undefined == -1

Min(a, b) == IF a < b THEN a ELSE b
Max(a, b) == IF a > b THEN a ELSE b

OrZero(v) == IF v = Undefined THEN 0 ELSE v
GT0(v) == v /= Undefined /\ v > 0

\* Array.prototype.slice(0, n)
Slice(s, n) == SubSeq(s, 1, Min(n, Len(s)))

\* ceil(a / b) for a >= 0, b > 0
CeilDiv(a, b) == (a + b - 1) \div b

Absent == [kind |-> "absent", items |-> <<>>]
Junk == [kind |-> "junk", items |-> <<>>]
Arr(s) == [kind |-> "array", items |-> s]

Truthy(v) == v.kind /= "absent"
IsArray(v) == v.kind = "array"

RECURSIVE SeqMax(_)
\* Math.max(...data) over a non-empty array of numbers
SeqMax(s) ==
    IF Len(s) = 1 THEN s[1]
    ELSE LET mid == Len(s) \div 2
         IN  Max(SeqMax(SubSeq(s, 1, mid)), SeqMax(SubSeq(s, mid + 1, Len(s))))

\* all sequences over S of length 0..n
SeqsUpTo(S, n) == UNION {[1..k -> S] : k \in 0..n}

---------------------------------------------------------------------------
(* The five chart slots, in the order the dispatcher processes them *)
SlotOrder == <<"hourly", "contacts", "wordcloud", "radar", "heatmap">>
Slots == {SlotOrder[i] : i \in 1..Len(SlotOrder)}
SlotIndex(s) == CHOOSE i \in 1..Len(SlotOrder) : SlotOrder[i] = s

\* What a slot shows: "canvas" is the page as loaded (empty canvas or empty
\* container), "chart" a drawn chart, "placeholder" the output of
\* showNoDataMessage, "message" the inline "Dados insuficientes" message of a
\* create* function, "partial" a word-cloud container that was cleared when an
\* exception interrupted its construction.
DomStates == {"canvas", "chart", "placeholder", "message", "partial"}

\* document.getElementById(id) finds the element unless an earlier
\* container.innerHTML assignment removed it
ElementPresent(slot, d) ==
    \/ d \in {"canvas", "chart", "partial"}
    \/ slot = "wordcloud" /\ d = "message"

NoChart == [type |-> "none", labels |-> <<>>, data |-> <<>>, colors |-> <<>>]

\* Result of one create* call on one slot: what the slot shows afterwards, the
\* chart configuration handed to the chart library, the branch taken
\* (Primary, Fallback or Empty) and whether an exception was thrown.
Res(d, c, p, t) == [dom |-> d, chart |-> c, plan |-> p, threw |-> t]

---------------------------------------------------------------------------
(* charts.js: the chart library wrappers *)

\* new Chart(ctx, config): draws on the canvas.  A canvas that already holds
\* a chart is reused or rejected with an exception depending on the version
\* of the chart library the page loads; reuseThrows is that choice.
newChart(d, c, config, p, reuseThrows) ==
    IF d = "chart" /\ reuseThrows
    THEN Res(d, c, p, TRUE)
    ELSE Res("chart", config, p, FALSE)

createBarChart(d, c, labels, values, p, reuseThrows) ==
    newChart(d, c, [type |-> "bar", labels |-> labels, data |-> values,
                    colors |-> <<>>], p, reuseThrows)

maxContacts == 5

\* variant: the lower clamp is missing
bubbleRadiusSq4_nofloor(sent, received) ==
    Min(900, 9 * (OrZero(sent) + OrZero(received)))

\* r = Math.max(5, Math.min(15, Math.sqrt(sent + received) * 1.5)), carried
\* as 4*r*r = max(100, min(900, 9 * (sent + received)))
bubbleRadiusSq4(sent, received) ==
    Max(100, Min(900, 9 * (OrZero(sent) + OrZero(received))))

\* variant: the radius is taken from the sent count alone
bubblePoint_sentOnly(item) ==
    [x |-> OrZero(item.sent),
     y |-> OrZero(item.received),
     r4sq |-> bubbleRadiusSq4(item.sent, 0),
     label |-> IF item.hasLabel THEN item.label ELSE <<>>]

bubblePoint(item) ==
    [x |-> OrZero(item.sent),
     y |-> OrZero(item.received),
     r4sq |-> bubbleRadiusSq4(item.sent, item.received),
     label |-> IF item.hasLabel THEN item.label ELSE <<>>]

\* variant: the library does not limit the contacts itself
createBubbleChart_unlimited(d, c, items, p, reuseThrows) ==
    newChart(d, c, [type |-> "bubble", labels |-> <<>>,
                    data |-> [i \in 1..Len(items) |-> bubblePoint(items[i])],
                    colors |-> <<>>], p, reuseThrows)

createBubbleChart(d, c, items, p, reuseThrows) ==
    LET limitedData == Slice(items, maxContacts)
        bubbleData == [i \in 1..Len(limitedData) |-> bubblePoint(limitedData[i])]
    IN  newChart(d, c, [type |-> "bubble", labels |-> <<>>,
                        data |-> bubbleData, colors |-> <<>>], p, reuseThrows)

createRadarChart(d, c, labels, datasets, p, reuseThrows) ==
    IF ~IsArray(datasets)
    THEN Res(d, c, p, TRUE)          \* datasets.map is not a function
    ELSE LET processedDatasets ==
                 [i \in 1..Len(datasets.items) |->
                    [label |-> datasets.items[i].label,
                     data |-> datasets.items[i].data,
                     color |-> IF i = 1 THEN "blue" ELSE "red"]]
         IN  newChart(d, c, [type |-> "radar", labels |-> labels.items,
                             data |-> processedDatasets, colors |-> <<>>],
                      p, reuseThrows)

numDays == 7
numHours == 24

\* variant: intensity = min(1, value / maxValue), without the 0.7 factor
backgroundColor_fullscale(value, maxValue) ==
    IF value = 0
    THEN [branch |-> "zero", num |-> 0, den |-> 1, rgba |-> <<240, 240, 240, 5>>]
    ELSE LET q == maxValue
             p == Min(value, q)
         IN  IF 2 * p < q
             THEN [branch |-> "blueYellow", num |-> p, den |-> q,
                   rgba |-> <<54, 162 + ((186 * p) \div q),
                              235 - CeilDiv(470 * p, q), 7>>]
             ELSE [branch |-> "yellowRed", num |-> p, den |-> q,
                   rgba |-> <<255, 255 - CeilDiv(156 * (2 * p - q), q), 64, 7>>]

\* the scriptable backgroundColor of a heat-map cell; intensity is num/den
backgroundColor(value, maxValue) ==
    IF value = 0
    THEN [branch |-> "zero", num |-> 0, den |-> 1, rgba |-> <<240, 240, 240, 5>>]
    ELSE LET q == 7 * maxValue
             p == Min(10 * value, q)      \* intensity = min(1, value / (maxValue * 0.7))
         IN  IF 2 * p < q
             THEN [branch |-> "blueYellow", num |-> p, den |-> q,
                   rgba |-> <<54, 162 + ((186 * p) \div q),
                              235 - CeilDiv(470 * p, q), 7>>]
             ELSE [branch |-> "yellowRed", num |-> p, den |-> q,
                   rgba |-> <<255, 255 - CeilDiv(156 * (2 * p - q), q), 64, 7>>]

\* variant: the flat sequence is read hour-major
heatCell_hourMajor(items, dd, h) ==
    LET i == h * numDays + dd + 1
    IN  IF i <= Len(items) THEN OrZero(items[i]) ELSE 0

\* data[d * 24 + h] || 0
heatCell(items, dd, h) ==
    LET i == dd * numHours + h + 1
    IN  IF i <= Len(items) THEN OrZero(items[i]) ELSE 0

createHeatMapChart(d, c, items, p, reuseThrows) ==
    LET heatmapData == [dd \in 1..numDays |->
                          [h \in 1..numHours |-> heatCell(items, dd - 1, h - 1)]]
        maxValue == SeqMax(items)
        cellColors == [dd \in 1..numDays |->
                         [h \in 1..numHours |->
                            backgroundColor(heatmapData[dd][h], maxValue)]]
    IN  newChart(d, c, [type |-> "heatmap",
                        labels |-> [h \in 1..numHours |-> h - 1],
                        data |-> heatmapData, colors |-> cellColors],
                 p, reuseThrows)

---------------------------------------------------------------------------
(* advanced-charts.js: one function per chart slot *)

\* createHourlyActivityChart; items are [isNull, hour, count]
createHourlyActivityChart(v, d, c, reuseThrows) ==
    IF ~Truthy(v) \/ Len(v.items) = 0
    THEN Res(d, c, "Empty", FALSE)                            \* bare return
    ELSE IF ~ElementPresent("hourly", d)
    THEN Res(d, c, "Primary", TRUE)                           \* null.getContext
    ELSE IF \E i \in 1..Len(v.items) : v.items[i].isNull
    THEN Res(d, c, "Primary", TRUE)                           \* item.hour of null
    ELSE LET hours == [i \in 1..Len(v.items) |-> v.items[i].hour]
             counts == [i \in 1..Len(v.items) |-> v.items[i].count]
         IN  createBarChart(d, c, hours, counts, "Primary", reuseThrows)

maxFallbackContacts == 3
maxBubbles == 8
maxLabelLen == 15
keptLabelLen == 12

Ellipsis == <<46, 46, 46>>

\* variant: labels of exactly 15 characters are truncated too
truncateLabel_fromFifteen(label) ==
    IF Len(label) >= maxLabelLen
    THEN SubSeq(label, 1, keptLabelLen) \o Ellipsis
    ELSE label

\* label truncation of the stacked-bar fallback
truncateLabel(label) ==
    IF Len(label) > maxLabelLen
    THEN SubSeq(label, 1, keptLabelLen) \o Ellipsis
    ELSE label

\* variant: one of sent / received suffices
hasEnoughData_either(items) ==
    \E i \in 1..Len(items) : GT0(items[i].sent) \/ GT0(items[i].received)

\* contactData.some(item => item.sent > 0 && item.received > 0)
hasEnoughData(items) ==
    \E i \in 1..Len(items) : GT0(items[i].sent) /\ GT0(items[i].received)

\* createContactBubbleChart; items are [hasLabel, label, sent, received]
createContactBubbleChart(v, d, c, reuseThrows) ==
    IF ~Truthy(v) \/ Len(v.items) = 0
    THEN IF ElementPresent("contacts", d)
         THEN Res("message", NoChart, "Empty", FALSE)
         ELSE Res(d, c, "Empty", TRUE)                         \* null.parentNode
    ELSE IF ~hasEnoughData(v.items)
    THEN LET shown == Slice(v.items, maxFallbackContacts)
         IN  IF ~ElementPresent("contacts", d)
             THEN Res(d, c, "Fallback", TRUE)
             ELSE IF \E i \in 1..Len(shown) : ~shown[i].hasLabel
             THEN Res(d, c, "Fallback", TRUE)                  \* undefined.length
             ELSE newChart(d, c,
                    [type |-> "stackedBar",
                     labels |-> [i \in 1..Len(shown) |-> truncateLabel(shown[i].label)],
                     data |-> << [i \in 1..Len(shown) |-> OrZero(shown[i].sent)],
                                 [i \in 1..Len(shown) |-> OrZero(shown[i].received)] >>,
                     colors |-> <<>>],
                    "Fallback", reuseThrows)
    ELSE IF ~ElementPresent("contacts", d)
    THEN Res(d, c, "Primary", TRUE)
    ELSE createBubbleChart(d, c, Slice(v.items, maxBubbles), "Primary", reuseThrows)

fontSizeMin == 14
fontSizeMax == 40
maxWords == 20
numColors == 10

\* variant: the palette is indexed from the second colour
colorIndex_shifted(index) == (index + 1) % numColors

\* colors[index % colors.length]
colorIndex(index) == index % numColors

\* variant: bold from weightRatio >= 0.6
wordSpan_boldAtThreshold(item, index, maxWeight) ==
    LET isNaN == item.weight = Undefined \/ maxWeight = Undefined \/ maxWeight = 0
    IN  [text |-> item.text,
         nan |-> isNaN,
         num |-> IF isNaN THEN 0
                 ELSE fontSizeMin * maxWeight + (fontSizeMax - fontSizeMin) * item.weight,
         den |-> IF isNaN THEN 1 ELSE maxWeight,
         bold |-> ~isNaN /\ 5 * item.weight >= 3 * maxWeight,
         color |-> colorIndex(index)]

\* fontSize = fontSizeMin + (fontSizeMax - fontSizeMin) * (weight / maxWeight),
\* as the fraction num/den; nan when a weight is missing
wordSpan(item, index, maxWeight) ==
    LET isNaN == item.weight = Undefined \/ maxWeight = Undefined \/ maxWeight = 0
    IN  [text |-> item.text,
         nan |-> isNaN,
         num |-> IF isNaN THEN 0
                 ELSE fontSizeMin * maxWeight + (fontSizeMax - fontSizeMin) * item.weight,
         den |-> IF isNaN THEN 1 ELSE maxWeight,
         bold |-> ~isNaN /\ 5 * item.weight > 3 * maxWeight,  \* weightRatio > 0.6
         color |-> colorIndex(index)]

\* index of the first null entry of a list, Len + 1 when there is none
firstNull(items) ==
    IF \E i \in 1..Len(items) : items[i].isNull
    THEN CHOOSE i \in 1..Len(items) :
            items[i].isNull /\ \A j \in 1..(i - 1) : ~items[j].isNull
    ELSE Len(items) + 1

\* createWordCloudVisualization; items are [isNull, text, weight]
createWordCloudVisualization(v, d, c) ==
    IF ~Truthy(v) \/ Len(v.items) = 0
    THEN IF ElementPresent("wordcloud", d)
         THEN Res("message", NoChart, "Empty", FALSE)
         ELSE Res(d, c, "Empty", TRUE)                         \* null.innerHTML
    ELSE IF ~ElementPresent("wordcloud", d)
    THEN Res(d, c, "Primary", TRUE)
    ELSE LET displayWords == Slice(v.items, Min(maxWords, Len(v.items)))
             stop == firstNull(displayWords)
             maxWeight == displayWords[1].weight
             spans == [i \in 1..(stop - 1) |->
                         wordSpan(displayWords[i], i - 1, maxWeight)]
             cloud == [type |-> "wordcloud", labels |-> <<>>,
                       data |-> spans, colors |-> <<>>]
         IN  IF stop <= Len(displayWords)
             THEN Res("partial", cloud, "Primary", TRUE)       \* weight of null
             ELSE Res("chart", cloud, "Primary", FALSE)

\* createEmailMetricsRadarChart; m is [kind, labels, datasets]
createEmailMetricsRadarChart(m, d, c, reuseThrows) ==
    IF ~Truthy(m) \/ ~Truthy(m.labels) \/ ~Truthy(m.datasets)
    THEN IF ElementPresent("radar", d)
         THEN Res("message", NoChart, "Empty", FALSE)
         ELSE Res(d, c, "Empty", TRUE)
    ELSE IF ~ElementPresent("radar", d)
    THEN Res(d, c, "Primary", TRUE)
    ELSE createRadarChart(d, c, m.labels, m.datasets, "Primary", reuseThrows)

\* variant: any non-empty matrix counts as data
hasData_nonempty(items) == Len(items) > 0

\* heatmapData.some(value => value > 0)
hasData(items) == \E i \in 1..Len(items) : GT0(items[i])

\* createActivityHeatmap; items are numbers
createActivityHeatmap(v, d, c, reuseThrows) ==
    IF ~Truthy(v) \/ Len(v.items) = 0 \/ ~hasData(v.items)
    THEN IF ElementPresent("heatmap", d)
         THEN Res("message", NoChart, "Empty", FALSE)
         ELSE Res(d, c, "Empty", TRUE)                         \* null.parentNode
    ELSE IF ~ElementPresent("heatmap", d)
    THEN Res(d, c, "Primary", TRUE)
    ELSE createHeatMapChart(d, c, v.items, "Primary", reuseThrows)

---------------------------------------------------------------------------
(* advanced-charts.js: the dispatcher *)

\* The state threaded through one call: the page, the branch taken per slot,
\* and the exception (if any) that ended the try block.
Apply(st, slot, res) ==
    [dom |-> [st.dom EXCEPT ![slot] = res.dom],
     charts |-> [st.charts EXCEPT ![slot] = res.chart],
     plan |-> [st.plan EXCEPT ![slot] = res.plan],
     threw |-> st.threw \/ res.threw,
     failedAt |-> IF st.threw THEN st.failedAt
                  ELSE IF res.threw THEN slot ELSE "none"]

\* variant: the placeholder is never written
showNoDataMessage_ignore(st, slot) == st

showNoDataMessage(st, slot) ==
    IF ~ElementPresent(slot, st.dom[slot])
    THEN st                                                   \* if (!element) return
    ELSE [st EXCEPT !.dom[slot] = "placeholder", !.charts[slot] = NoChart]

\* the else branch of a slot: the gate found the field insufficient
noData(st, slot) == showNoDataMessage([st EXCEPT !.plan[slot] = "Empty"], slot)

\* variant: each slot has its own try block
tryNext_continue(st, next) == next

\* statements of a try block after an exception are not executed
tryNext(st, next) == IF st.threw THEN st ELSE next

hourlyStep(st, payload, reuseThrows) ==
    IF Truthy(payload.hourly_activity) /\ IsArray(payload.hourly_activity)
    THEN Apply(st, "hourly",
               createHourlyActivityChart(payload.hourly_activity, st.dom["hourly"],
                                         st.charts["hourly"], reuseThrows))
    ELSE noData(st, "hourly")

contactsStep(st, payload, reuseThrows) ==
    IF /\ Truthy(payload.contact_data) /\ IsArray(payload.contact_data)
       /\ Len(payload.contact_data.items) > 0
    THEN Apply(st, "contacts",
               createContactBubbleChart(payload.contact_data, st.dom["contacts"],
                                        st.charts["contacts"], reuseThrows))
    ELSE noData(st, "contacts")

wordCloudStep(st, payload) ==
    IF /\ Truthy(payload.word_cloud) /\ IsArray(payload.word_cloud)
       /\ Len(payload.word_cloud.items) > 0
    THEN Apply(st, "wordcloud",
               createWordCloudVisualization(payload.word_cloud, st.dom["wordcloud"],
                                            st.charts["wordcloud"]))
    ELSE noData(st, "wordcloud")

\* variant: the dispatcher does not test datasets
radarStep_labelsOnly(st, payload, reuseThrows) ==
    IF Truthy(payload.email_metrics) /\ Truthy(payload.email_metrics.labels)
    THEN Apply(st, "radar",
               createEmailMetricsRadarChart(payload.email_metrics, st.dom["radar"],
                                            st.charts["radar"], reuseThrows))
    ELSE noData(st, "radar")

radarStep(st, payload, reuseThrows) ==
    IF /\ Truthy(payload.email_metrics) /\ Truthy(payload.email_metrics.labels)
       /\ Truthy(payload.email_metrics.datasets)
    THEN Apply(st, "radar",
               createEmailMetricsRadarChart(payload.email_metrics, st.dom["radar"],
                                            st.charts["radar"], reuseThrows))
    ELSE noData(st, "radar")

heatmapStep(st, payload, reuseThrows) ==
    IF /\ Truthy(payload.activity_heatmap) /\ IsArray(payload.activity_heatmap)
       /\ Len(payload.activity_heatmap.items) > 0
    THEN Apply(st, "heatmap",
               createActivityHeatmap(payload.activity_heatmap, st.dom["heatmap"],
                                     st.charts["heatmap"], reuseThrows))
    ELSE noData(st, "heatmap")

\* try { ... } catch (error) { console.error(...) }: nothing is rethrown
catchError(st) == [st |-> st, escaped |-> FALSE]

\* initializeAdvancedCharts(data) on page (d, c); the result's threw is
\* "the catch clause ran", escaped is "an exception reached the caller"
initializeAdvancedCharts(payload, d, c, reuseThrows) ==
    LET s0 == [dom |-> d, charts |-> c, plan |-> [s \in Slots |-> "None"],
               threw |-> FALSE, failedAt |-> "none"]
    IN  IF ~payload.present
        THEN LET n1 == noData(s0, "hourly")
                 n2 == noData(n1, "contacts")
                 n3 == noData(n2, "wordcloud")
                 n4 == noData(n3, "radar")
                 n5 == noData(n4, "heatmap")
             IN  [st |-> n5, escaped |-> n5.threw]
        ELSE LET s1 == hourlyStep(s0, payload, reuseThrows)
                 s2 == tryNext(s1, contactsStep(s1, payload, reuseThrows))
                 s3 == tryNext(s2, wordCloudStep(s2, payload))
                 s4 == tryNext(s3, radarStep(s3, payload, reuseThrows))
                 s5 == tryNext(s4, heatmapStep(s4, payload, reuseThrows))
             IN  catchError(s5)

---------------------------------------------------------------------------
(* main.js: debounce, the sidebar and the dark-mode switch *)

\* a timer is [id, args]: the closure `later` of one call of executedFunction
clearTimeout(timers, id) == {t \in timers : t.id /= id}

\* variant: the pending callback is not cancelled
executedFunction_noClear(timers, timeout, id, args) ==
    [timers |-> timers \cup {[id |-> id, args |-> args]},
     timeout |-> id]

\* clearTimeout(timeout); timeout = setTimeout(later, wait)
executedFunction(timers, timeout, id, args) ==
    [timers |-> clearTimeout(timers, timeout) \cup {[id |-> id, args |-> args]},
     timeout |-> id]

\* the timer t expires: clearTimeout(timeout); func(...args)
later(timers, timeout, t) == clearTimeout(timers \ {t}, timeout)

breakpoint == 992
Widths == {600, breakpoint - 1, breakpoint, 1400}
\* what localStorage.getItem may return: null or any string
StoredValues == {"null", "true", "false", "other"}

\* variant: the class is removed whatever the stored preference
handleResponsiveLayout_alwaysRemove(w, pref, c) ==
    IF w < breakpoint THEN TRUE
    ELSE FALSE

\* the class sidebar-collapsed of the wrapper after a layout pass
handleResponsiveLayout(w, pref, c) ==
    IF w < breakpoint THEN TRUE
    ELSE IF pref /= "true" THEN FALSE
    ELSE c

\* variant: the state before the toggle is stored
sidebarToggleClick_storeOld(c) ==
    [collapsed |-> ~c, pref |-> IF c THEN "true" ELSE "false"]

\* classList.toggle, then setItem('sidebarCollapsed', contains(...))
sidebarToggleClick(c) ==
    [collapsed |-> ~c, pref |-> IF ~c THEN "true" ELSE "false"]

\* the sidebar part of the DOMContentLoaded handler: the stored state is
\* applied, then the first layout pass runs
sidebarOnLoad(w, pref, c) ==
    handleResponsiveLayout(w, pref, c \/ pref = "true")

\* the link handler; href is "same" (the link of the current page: default
\* prevented, nothing happens), "samePath" (the browser follows the link) or
\* "other" (the handler navigates after the exit animation)
sidebarLinkClick(href, w, pref, c) ==
    IF href = "same"
    THEN [collapsed |-> c, pref |-> pref, navigate |-> FALSE]
    ELSE [collapsed |-> c \/ w < breakpoint,
          pref |-> IF w < breakpoint THEN "true" ELSE pref,
          navigate |-> TRUE]

\* the dark-mode part of the DOMContentLoaded handler
darkModeOnLoad(pref, checked, th, cls) ==
    IF pref = "true"
    THEN [theme |-> "dark", checked |-> TRUE, class |-> TRUE]
    ELSE [theme |-> th, checked |-> checked, class |-> cls]

\* variant: switching off does not store the preference
darkModeChange_keepStored(checked, pref) ==
    IF checked
    THEN [theme |-> "dark", class |-> TRUE, pref |-> "true"]
    ELSE [theme |-> "light", class |-> FALSE, pref |-> pref]

\* the change handler of the dark-mode switch
darkModeChange(checked, pref) ==
    IF checked
    THEN [theme |-> "dark", class |-> TRUE, pref |-> "true"]
    ELSE [theme |-> "light", class |-> FALSE, pref |-> "false"]

---------------------------------------------------------------------------
(* main.js: the report form *)

\* the value of an empty date input
NoDate == 0
\* the values a date input can hold: empty, or one of the days 1..MaxDay
DateValues == {NoDate} \cup 1..MaxDay
\* new Date(value) of a day, in milliseconds
DateOf(v) == v * 86400000

\* variant: the other box is left alone
includeChange_noForce(this, other) ==
    [other |-> other, alert |-> FALSE]

\* the change handler of include_sent or include_received; this is the box
\* that changed, other the other box
includeChange(this, other) ==
    IF ~this /\ ~other
    THEN [other |-> TRUE, alert |-> TRUE]
    ELSE [other |-> other, alert |-> FALSE]

\* variant: equal dates are rejected too
dateRangeViolated_strict(start, end) ==
    start /= NoDate /\ end /= NoDate /\ DateOf(end) <= DateOf(start)

\* startDateInput.value && endDateInput.value && new Date(end) < new Date(start)
dateRangeViolated(start, end) ==
    start /= NoDate /\ end /= NoDate /\ DateOf(end) < DateOf(start)

\* the change handler of date_range_end
endDateChange(start, end) ==
    IF dateRangeViolated(start, end)
    THEN [start |-> start, end |-> NoDate, alert |-> TRUE]
    ELSE [start |-> start, end |-> end, alert |-> FALSE]

\* the change handler of date_range_start
startDateChange(start, end) ==
    IF dateRangeViolated(start, end)
    THEN [start |-> NoDate, end |-> end, alert |-> TRUE]
    ELSE [start |-> start, end |-> end, alert |-> FALSE]

---------------------------------------------------------------------------
(* Payloads the server may hand to the page *)


HourlyItem(n, h, k) == [isNull |-> n, hour |-> h, count |-> k]
HourlyItems == {HourlyItem(TRUE, 0, 0), HourlyItem(FALSE, 0, 0), HourlyItem(FALSE, 9, 4)}
GoodHourly == Arr(<<HourlyItem(FALSE, 0, 0), HourlyItem(FALSE, 9, 4)>>)
HourlyFields ==
    {Absent, Junk} \cup {Arr(s) : s \in SeqsUpTo(HourlyItems, MaxHourly)}

LabelShort == <<97, 64, 98>>
LabelFifteen == [i \in 1..maxLabelLen |-> 96 + i]
LabelLong == [i \in 1..(maxLabelLen + 1) |-> 96 + i]

Contact(l, s, r) == [hasLabel |-> TRUE, label |-> l, sent |-> s, received |-> r]
NoLabelContact(s, r) == [hasLabel |-> FALSE, label |-> <<>>, sent |-> s, received |-> r]

PairedContact == Contact(LabelShort, 3, 5)
SmallContacts ==
    {Contact(LabelShort, 0, 5), Contact(LabelShort, 3, 0), PairedContact,
     Contact(LabelShort, 0, 0), NoLabelContact(0, 5), NoLabelContact(3, 0),
     Contact(LabelLong, 3, Undefined)}
ContactVals == {Undefined, 0, 5, 6, 50, 60}
RichContacts ==
    {Contact(l, s, r) : l \in {LabelShort, LabelFifteen, LabelLong},
                        s \in ContactVals, r \in ContactVals}
    \cup {NoLabelContact(s, r) : s \in ContactVals, r \in ContactVals}
\* n contacts told apart by their position
Ramp(n, r) == [i \in 1..n |-> Contact(<<96 + i>>, i, r)]
\* sent counts that put the total of a contact with one received message
\* on both sides of the floor and of the ceiling of the radius
RadiusSents == {1, 10, 11, 98, 99, 100, 300}
ContactLists ==
    SeqsUpTo(SmallContacts, MaxShort)
    \cup {<<Contact(LabelShort, a, 1), Contact(LabelShort, b, 1)>> :
             a \in RadiusSents, b \in RadiusSents}
    \cup {<<c>> : c \in RichContacts}
    \cup {<<PairedContact, c>> : c \in RichContacts}
    \cup {Ramp(n, r) : n \in 1..MaxContactsLen, r \in {0, 2}}
ContactFields == {Absent, Junk} \cup {Arr(s) : s \in ContactLists}

Word(t, w) == [isNull |-> FALSE, text |-> t, weight |-> w]
NullWord == [isNull |-> TRUE, text |-> 0, weight |-> Undefined]
WordItems == {NullWord, Word(1, 40), Word(2, 20), Word(3, Undefined), Word(4, 24),
              Word(5, 25)}
GoodWords == Arr(<<Word(1, 40), Word(2, 20)>>)
\* n terms told apart by their position, sorted by descending weight
WordRamp(n) == [i \in 1..n |-> Word(i, 100 - i)]
WordFields ==
    {Absent, Junk}
    \cup {Arr(s) : s \in SeqsUpTo(WordItems, MaxWords)}
    \cup {Arr(WordRamp(n)) : n \in 1..MaxWordsLen}

Dataset(l, v) == [label |-> l, data |-> v]
Metrics(l, ds) == [kind |-> "object", labels |-> l, datasets |-> ds]
AbsentMetrics == [kind |-> "absent", labels |-> Absent, datasets |-> Absent]
JunkMetrics == [kind |-> "junk", labels |-> Absent, datasets |-> Absent]
GoodMetrics == Metrics(Arr(<<1, 2>>),
                       Arr(<<Dataset(1, <<85, 65>>), Dataset(2, <<70, 80>>)>>))
MetricsFields ==
    {AbsentMetrics, JunkMetrics}
    \cup {Metrics(l, ds) :
            l \in {Absent, Arr(<<>>), Arr(<<1, 2>>)},
            ds \in {Absent, Junk, Arr(<<>>), Arr(<<Dataset(1, <<85, 65>>)>>),
                    Arr(<<Dataset(1, <<85, 65>>), Dataset(2, <<70, 80>>),
                          Dataset(3, <<1, 2>>)>>)}}

HeatVals == {0, 6, 7, 10, 14, 20}
\* a full week of numDays * numHours cells, all zero but cell i
FullHeat(i, v) == [k \in 1..(numDays * numHours) |-> IF k = i THEN v ELSE 0]
\* n cells told apart by their position
HeatRamp(n) == [k \in 1..n |-> k]
HeatLists ==
    SeqsUpTo(HeatVals, MaxHeatLen)
    \cup {FullHeat(i, v) : i \in {1, numHours + 1, numDays * numHours}, v \in {0, 1, 20}}
    \cup {HeatRamp(numDays * numHours), HeatRamp(numHours + 6)}
GoodHeat == Arr(<<6, 20>>)
HeatFields == {Absent, Junk} \cup {Arr(s) : s \in HeatLists}

Payload(h, c, w, m, a) ==
    [present |-> TRUE, hourly_activity |-> h, contact_data |-> c,
     word_cloud |-> w, email_metrics |-> m, activity_heatmap |-> a]

\* initializeAdvancedCharts(null)
NullPayload ==
    [present |-> FALSE, hourly_activity |-> Absent, contact_data |-> Absent,
     word_cloud |-> Absent, email_metrics |-> AbsentMetrics,
     activity_heatmap |-> Absent]

\* every field ranges over its whole set while the others are well formed,
\* and all fields range together over absent / good / malformed values
Payloads ==
    {NullPayload}
    \cup {Payload(h, Arr(<<PairedContact>>), GoodWords, GoodMetrics, GoodHeat) :
            h \in HourlyFields}
    \cup {Payload(GoodHourly, c, GoodWords, GoodMetrics, GoodHeat) :
            c \in ContactFields}
    \cup {Payload(GoodHourly, Arr(<<PairedContact>>), w, GoodMetrics, GoodHeat) :
            w \in WordFields}
    \cup {Payload(GoodHourly, Arr(<<PairedContact>>), GoodWords, m, GoodHeat) :
            m \in MetricsFields}
    \cup {Payload(GoodHourly, Arr(<<PairedContact>>), GoodWords, GoodMetrics, a) :
            a \in HeatFields}
    \cup {Payload(h, c, w, m, a) :
            h \in {Absent, Arr(<<>>), GoodHourly, Arr(<<HourlyItem(TRUE, 0, 0)>>)},
            c \in {Absent, Arr(<<PairedContact>>), Arr(<<Contact(LabelShort, 0, 5)>>),
                   Arr(<<NoLabelContact(0, 5)>>)},
            w \in {Absent, GoodWords, Arr(<<NullWord>>)},
            m \in {AbsentMetrics, GoodMetrics, Metrics(Arr(<<1, 2>>), Junk)},
            a \in {Absent, Arr(<<0, 0>>), GoodHeat}}

GoodPayload ==
    Payload(GoodHourly, Arr(<<PairedContact>>), GoodWords, GoodMetrics, GoodHeat)
AgainPayloads == {NullPayload, GoodPayload}

---------------------------------------------------------------------------
(* The state machine *)

\* no debounced function has been called yet
DebounceIdle ==
    /\ dTimers = {}
    /\ dTimeout = 0
    /\ dNextId = 1
    /\ dLastArgs = 0
    /\ dBurst = 0
    /\ dCalls = <<>>
    /\ dEvents = 0

\* the page chrome before the DOMContentLoaded handler has run
PageIdle ==
    /\ loaded = FALSE
    /\ width = breakpoint
    /\ collapsed = FALSE
    /\ sidebarPref = "null"
    /\ resizeTimer = FALSE
    /\ navTimer = FALSE
    /\ lastOp = "markup"
    /\ darkPref = "null"
    /\ darkChecked = FALSE
    /\ theme = "light"
    /\ darkClass = FALSE
    /\ lastChange = "none"

\* the dashboard page as loaded: five empty slots, nothing rendered yet
ChartsInit ==
    /\ data = NullPayload
    /\ dom = [s \in Slots |-> "canvas"]
    /\ charts = [s \in Slots |-> NoChart]
    /\ plan = [s \in Slots |-> "None"]
    /\ prevDom = [s \in Slots |-> "canvas"]
    /\ prevCharts = [s \in Slots |-> NoChart]
    /\ prevPlan = [s \in Slots |-> "None"]
    /\ repeated = FALSE
    /\ caught = FALSE
    /\ failedAt = "none"
    /\ propagated = FALSE
    /\ renders = 0

\* the report form before any change
FormIdle ==
    /\ incSent = TRUE
    /\ incReceived = TRUE
    /\ startDate = NoDate
    /\ endDate = NoDate
    /\ formOp = "none"
    /\ prevSent = TRUE
    /\ prevReceived = TRUE
    /\ prevStart = NoDate
    /\ prevEnd = NoDate
    /\ typed = NoDate
    /\ alerted = FALSE

Init == ChartsInit /\ DebounceIdle /\ PageIdle /\ FormIdle

\* one call initializeAdvancedCharts(payload)
Render(payload, reuseThrows) ==
    /\ renders < MaxRenders
    /\ LET r == initializeAdvancedCharts(payload, dom, charts, reuseThrows)
       IN  /\ data' = payload
           /\ dom' = r.st.dom
           /\ charts' = r.st.charts
           /\ plan' = r.st.plan
           /\ prevDom' = dom
           /\ prevCharts' = charts
           /\ prevPlan' = plan
           /\ repeated' = (renders > 0 /\ payload = data)
           /\ caught' = (r.st.threw /\ ~r.escaped)
           /\ failedAt' = r.st.failedAt
           /\ propagated' = r.escaped
           /\ renders' = renders + 1
    /\ UNCHANGED <<debounceVars, pageVars, formVars>>

\* the page is loaded again: the slots are back to their markup
PageLoad ==
    /\ renders > 0
    /\ data' = NullPayload
    /\ dom' = [s \in Slots |-> "canvas"]
    /\ charts' = [s \in Slots |-> NoChart]
    /\ plan' = [s \in Slots |-> "None"]
    /\ prevDom' = [s \in Slots |-> "canvas"]
    /\ prevCharts' = [s \in Slots |-> NoChart]
    /\ prevPlan' = [s \in Slots |-> "None"]
    /\ repeated' = FALSE
    /\ caught' = FALSE
    /\ failedAt' = "none"
    /\ propagated' = FALSE
    /\ renders' = 0
    /\ UNCHANGED <<debounceVars, pageVars, formVars>>

\* The page script calls initializeAdvancedCharts once per page load with any
\* payload; a further call on the same page repeats the payload or passes one
\* of AgainPayloads.
Next ==
    \/ \E payload \in (IF renders = 0 THEN Payloads ELSE AgainPayloads \cup {data}),
          reuseThrows \in BOOLEAN : Render(payload, reuseThrows)
    \/ PageLoad

Spec == Init /\ [][Next]_vars

\* one call of the debounced function with the arguments args
Event(args) ==
    /\ dEvents < MaxEvents
    /\ LET r == executedFunction(dTimers, dTimeout, dNextId, args)
       IN  /\ dTimers' = r.timers
           /\ dTimeout' = r.timeout
    /\ dNextId' = dNextId + 1
    /\ dLastArgs' = args
    /\ dBurst' = dBurst + 1
    /\ dEvents' = dEvents + 1
    /\ UNCHANGED <<dCalls, chartVars, pageVars, formVars>>

\* the quiet interval of the timer t has elapsed: later runs func(...args);
\* each call is recorded with the number of events since the previous call
\* and the arguments of the last event
TimerFires(t) ==
    /\ t \in dTimers
    /\ dTimers' = later(dTimers, dTimeout, t)
    /\ dCalls' = Append(dCalls, [args |-> t.args, burst |-> dBurst, last |-> dLastArgs])
    /\ dBurst' = 0
    /\ UNCHANGED <<dTimeout, dNextId, dLastArgs, dEvents, chartVars, pageVars, formVars>>

QuietInterval == \E t \in dTimers : TimerFires(t)

NextDebounce ==
    \/ \E args \in 1..2 : Event(args)
    \/ QuietInterval

SpecDebounce == Init /\ [][NextDebounce]_vars

\* the browser runs every timer that stays pending
SpecDebounceFair == SpecDebounce /\ WF_vars(QuietInterval)

\* the page as delivered, with whatever earlier visits left in localStorage
PageStart ==
    /\ loaded = FALSE
    /\ width \in Widths
    /\ collapsed = FALSE
    /\ sidebarPref \in StoredValues
    /\ resizeTimer = FALSE
    /\ navTimer = FALSE
    /\ lastOp = "markup"
    /\ darkPref \in StoredValues
    /\ darkChecked = FALSE
    /\ theme = "light"
    /\ darkClass = FALSE
    /\ lastChange = "none"

InitPage == ChartsInit /\ DebounceIdle /\ PageStart /\ FormIdle

\* the DOMContentLoaded handler
DOMContentLoaded ==
    /\ ~loaded
    /\ loaded' = TRUE
    /\ collapsed' = sidebarOnLoad(width, sidebarPref, collapsed)
    /\ LET r == darkModeOnLoad(darkPref, darkChecked, theme, darkClass)
       IN  /\ theme' = r.theme
           /\ darkChecked' = r.checked
           /\ darkClass' = r.class
    /\ lastOp' = "load"
    /\ UNCHANGED <<width, sidebarPref, resizeTimer, navTimer, darkPref, lastChange,
                   chartVars, debounceVars,
                   formVars>>

ToggleClick ==
    /\ loaded
    /\ LET r == sidebarToggleClick(collapsed)
       IN  /\ collapsed' = r.collapsed
           /\ sidebarPref' = r.pref
    /\ lastOp' = "toggle"
    /\ UNCHANGED <<loaded, width, resizeTimer, navTimer, darkPref, darkChecked, theme,
                   darkClass, lastChange, chartVars, debounceVars,
                   formVars>>

\* the window gets the width w; the resize listener restarts its timer
Resize(w) ==
    /\ loaded
    /\ w /= width
    /\ width' = w
    /\ resizeTimer' = TRUE
    /\ lastOp' = "resize"
    /\ UNCHANGED <<loaded, collapsed, sidebarPref, navTimer, darkPref, darkChecked,
                   theme, darkClass, lastChange, chartVars, debounceVars,
                   formVars>>

\* 100 ms after the last resize: handleResponsiveLayout
ResizeTimerFires ==
    /\ resizeTimer
    /\ resizeTimer' = FALSE
    /\ collapsed' = handleResponsiveLayout(width, sidebarPref, collapsed)
    /\ lastOp' = "layout"
    /\ UNCHANGED <<loaded, width, sidebarPref, navTimer, darkPref, darkChecked, theme,
                   darkClass, lastChange, chartVars, debounceVars,
                   formVars>>

LinkClick(href) ==
    /\ loaded
    /\ LET r == sidebarLinkClick(href, width, sidebarPref, collapsed)
       IN  /\ collapsed' = r.collapsed
           /\ sidebarPref' = r.pref
           /\ navTimer' = (navTimer \/ r.navigate)
    /\ lastOp' = "link"
    /\ UNCHANGED <<loaded, width, resizeTimer, darkPref, darkChecked, theme, darkClass,
                   lastChange, chartVars, debounceVars,
                   formVars>>

\* the document is replaced: the markup is back, the timers are gone, the
\* storage stays
Unload ==
    /\ loaded' = FALSE
    /\ collapsed' = FALSE
    /\ resizeTimer' = FALSE
    /\ navTimer' = FALSE
    /\ darkChecked' = FALSE
    /\ theme' = "light"
    /\ darkClass' = FALSE
    /\ lastOp' = "markup"
    /\ UNCHANGED <<width, sidebarPref, darkPref, lastChange, chartVars, debounceVars,
                   formVars>>

\* the navigation a link click started: the default action of the link, or
\* window.location.href = targetUrl 300 ms after the click
Navigate == navTimer /\ Unload

\* the user reloads the page
Reload == loaded /\ Unload

\* the user flips the switch; the change handler runs
DarkSwitchChange ==
    /\ loaded
    /\ darkChecked' = ~darkChecked
    /\ LET r == darkModeChange(~darkChecked, darkPref)
       IN  /\ theme' = r.theme
           /\ darkClass' = r.class
           /\ darkPref' = r.pref
    /\ lastChange' = IF ~darkChecked THEN "on" ELSE "off"
    /\ lastOp' = "dark"
    /\ UNCHANGED <<loaded, width, collapsed, sidebarPref, resizeTimer, navTimer,
                   chartVars, debounceVars,
                   formVars>>

NextPage ==
    \/ DOMContentLoaded
    \/ ToggleClick
    \/ \E w \in Widths : Resize(w)
    \/ ResizeTimerFires
    \/ \E href \in {"same", "samePath", "other"} : LinkClick(href)
    \/ Navigate
    \/ Reload
    \/ DarkSwitchChange

SpecPage == InitPage /\ [][NextPage]_vars

\* the report form as delivered: any boxes checked, any dates filled in
FormStart ==
    /\ incSent \in BOOLEAN
    /\ incReceived \in BOOLEAN
    /\ startDate \in DateValues
    /\ endDate \in DateValues
    /\ formOp = "none"
    /\ prevSent = incSent
    /\ prevReceived = incReceived
    /\ prevStart = startDate
    /\ prevEnd = endDate
    /\ typed = NoDate
    /\ alerted = FALSE

InitForm == ChartsInit /\ DebounceIdle /\ PageIdle /\ FormStart

\* every form action records the form before the user's change
Remember ==
    /\ prevSent' = incSent
    /\ prevReceived' = incReceived
    /\ prevStart' = startDate
    /\ prevEnd' = endDate

\* the user flips include_sent; its change handler runs
SentChange ==
    /\ Remember
    /\ incSent' = ~incSent
    /\ LET r == includeChange(~incSent, incReceived)
       IN  /\ incReceived' = r.other
           /\ alerted' = r.alert
    /\ formOp' = "sent"
    /\ UNCHANGED <<startDate, endDate, typed, chartVars, debounceVars, pageVars>>

\* the user flips include_received; its change handler runs
ReceivedChange ==
    /\ Remember
    /\ incReceived' = ~incReceived
    /\ LET r == includeChange(~incReceived, incSent)
       IN  /\ incSent' = r.other
           /\ alerted' = r.alert
    /\ formOp' = "received"
    /\ UNCHANGED <<startDate, endDate, typed, chartVars, debounceVars, pageVars>>

\* the user sets date_range_end to v; its change handler runs
EndDateChange(v) ==
    /\ v /= endDate
    /\ Remember
    /\ typed' = v
    /\ LET r == endDateChange(startDate, v)
       IN  /\ startDate' = r.start
           /\ endDate' = r.end
           /\ alerted' = r.alert
    /\ formOp' = "end"
    /\ UNCHANGED <<incSent, incReceived, chartVars, debounceVars, pageVars>>

\* the user sets date_range_start to v; its change handler runs
StartDateChange(v) ==
    /\ v /= startDate
    /\ Remember
    /\ typed' = v
    /\ LET r == startDateChange(v, endDate)
       IN  /\ startDate' = r.start
           /\ endDate' = r.end
           /\ alerted' = r.alert
    /\ formOp' = "start"
    /\ UNCHANGED <<incSent, incReceived, chartVars, debounceVars, pageVars>>

NextForm ==
    \/ SentChange
    \/ ReceivedChange
    \/ \E v \in DateValues : EndDateChange(v)
    \/ \E v \in DateValues : StartDateChange(v)

SpecForm == InitForm /\ [][NextForm]_vars

---------------------------------------------------------------------------
(* Properties *)

ShowsPlaceholder(s) == dom[s] \in {"placeholder", "message"}
ShowsChart(s) == dom[s] = "chart" /\ charts[s].type /= "none"
Before(s, t) == SlotIndex(s) < SlotIndex(t)

\* C1: a call with an absent payload puts the placeholder in each of the five
\* slots, draws no chart, takes no per-field decision other than Empty, and
\* raises nothing.
C1_MissingPayload ==
    (renders > 0 /\ ~data.present) =>
        /\ \A s \in Slots :
              /\ ShowsPlaceholder(s)
              /\ charts[s] = NoChart
              /\ plan[s] = "Empty"
              /\ (ElementPresent(s, prevDom[s]) => dom[s] = "placeholder")
        /\ ~caught
        /\ ~propagated

C1_Witness ==
    /\ renders = 1
    /\ ~data.present
    /\ \A s \in Slots : dom[s] = "placeholder" /\ prevDom[s] = "canvas"

\* C2: on a freshly loaded page and a present payload, an absent or
\* zero-length hourly_activity is Empty and the hourly slot shows the
\* placeholder; every non-empty sequence of hourly records is Primary and a
\* bar chart is drawn.
C2_HourlyGate ==
    (renders = 1 /\ data.present) =>
        LET v == data.hourly_activity
        IN  /\ (~Truthy(v) \/ (IsArray(v) /\ Len(v.items) = 0)) =>
                  (plan["hourly"] = "Empty" /\ dom["hourly"] = "placeholder")
            /\ (IsArray(v) /\ Len(v.items) > 0
                  /\ \A i \in 1..Len(v.items) : ~v.items[i].isNull) =>
                  /\ plan["hourly"] = "Primary"
                  /\ dom["hourly"] = "chart"
                  /\ charts["hourly"].type = "bar"

\* C3: on a freshly loaded page, absent or zero-length contact_data is Empty
\* (placeholder); otherwise the branch is Fallback when no record has both
\* sent > 0 and received > 0 and Primary when one has.  The fallback chart is
\* the stacked bars of exactly the first min(n, 3) records (it is drawn
\* whenever these records carry a label), the primary chart is a bubble chart
\* of at most the first 8 records.
C3_ContactsGate ==
    (renders = 1 /\ data.present /\ failedAt /= "hourly") =>
        LET v == data.contact_data
            n == Len(v.items)
            k == IF n < 3 THEN n ELSE 3
            paired == \E i \in 1..n : v.items[i].sent > 0 /\ v.items[i].received > 0
            ch == charts["contacts"]
        IN  /\ (~Truthy(v) \/ (IsArray(v) /\ n = 0)) =>
                  /\ plan["contacts"] = "Empty"
                  /\ dom["contacts"] = "placeholder"
                  /\ ch = NoChart
            /\ (IsArray(v) /\ n > 0 /\ ~paired) =>
                  /\ plan["contacts"] = "Fallback"
                  /\ (failedAt = "contacts") = (\E i \in 1..k : ~v.items[i].hasLabel)
                  /\ (failedAt /= "contacts") =>
                        /\ dom["contacts"] = "chart"
                        /\ ch.type = "stackedBar"
                        /\ Len(ch.labels) = k
                        /\ Len(ch.data[1]) = k
                        /\ Len(ch.data[2]) = k
                        /\ \A i \in 1..k :
                              /\ ch.data[1][i] = OrZero(v.items[i].sent)
                              /\ ch.data[2][i] = OrZero(v.items[i].received)
            /\ (IsArray(v) /\ n > 0 /\ paired) =>
                  /\ plan["contacts"] = "Primary"
                  /\ dom["contacts"] = "chart"
                  /\ ch.type = "bubble"
                  /\ Len(ch.data) <= 8
                  /\ Len(ch.data) <= n
                  /\ \A i \in 1..Len(ch.data) :
                        /\ ch.data[i].x = OrZero(v.items[i].sent)
                        /\ ch.data[i].y = OrZero(v.items[i].received)
            /\ (IsArray(v) /\ v.items \in {<<Contact(LabelShort, 0, 5), Contact(LabelShort, 3, 0)>>,
                                           <<NoLabelContact(0, 5), NoLabelContact(3, 0)>>}) =>
                  plan["contacts"] = "Fallback"
            /\ (IsArray(v) /\ v.items = <<Contact(LabelShort, 3, 5)>>) =>
                  plan["contacts"] = "Primary"

C3_Witness ==
    /\ renders = 1
    /\ data.present
    /\ IsArray(data.contact_data)
    /\ Len(data.contact_data.items) > 3
    /\ plan["contacts"] = "Fallback"
    /\ charts["contacts"].type = "stackedBar"
    /\ Len(charts["contacts"].labels) = 3

\* C4 as stated: on the Primary bubble path the dataset has exactly
\* min(n, 8) points, in input order, with x = sent and y = received.
C4_BubblePointsFirstEight ==
    (renders = 1 /\ data.present /\ plan["contacts"] = "Primary"
       /\ failedAt /= "contacts") =>
        LET items == data.contact_data.items
            n == Len(items)
            pts == charts["contacts"].data
        IN  /\ Len(pts) = (IF n < 8 THEN n ELSE 8)
            /\ \A i \in 1..Len(pts) :
                  /\ pts[i].x = OrZero(items[i].sent)
                  /\ pts[i].y = OrZero(items[i].received)

\* C4 amended: on the Primary bubble path the dataset has exactly min(n, 5)
\* points, one for each of the first 5 records, in input order, with
\* x = sent and y = received.
C4_BubblePointsFirstFive ==
    (renders = 1 /\ data.present /\ plan["contacts"] = "Primary"
       /\ failedAt /= "contacts") =>
        LET items == data.contact_data.items
            n == Len(items)
            pts == charts["contacts"].data
        IN  /\ charts["contacts"].type = "bubble"
            /\ Len(pts) = (IF n < 5 THEN n ELSE 5)
            /\ \A i \in 1..Len(pts) :
                  /\ pts[i].x = OrZero(items[i].sent)
                  /\ pts[i].y = OrZero(items[i].received)

C4_Witness ==
    /\ renders = 1
    /\ plan["contacts"] = "Primary"
    /\ Len(data.contact_data.items) > 8
    /\ charts["contacts"].type = "bubble"
    /\ Len(charts["contacts"].data) = 5
    /\ charts["contacts"].data[5].x = 5

\* C5: every encoded bubble has 5 <= r <= 15, that is 100 <= 4*r*r <= 900,
\* for all non-negative or missing sent / received; r = 5 when both are 0.
C5_RadiusWithinBounds ==
    (charts["contacts"].type = "bubble") =>
        \A i \in 1..Len(charts["contacts"].data) :
            LET pt == charts["contacts"].data[i]
            IN  /\ 100 <= pt.r4sq
                /\ pt.r4sq <= 900
                /\ (pt.x = 0 /\ pt.y = 0) => pt.r4sq = 100

C5_Witness ==
    /\ charts["contacts"].type = "bubble"
    /\ Len(charts["contacts"].data) = 2
    /\ data.contact_data.items[2].sent = Undefined
    /\ data.contact_data.items[2].received = 0
    /\ charts["contacts"].data[2].x = 0
    /\ charts["contacts"].data[2].y = 0
    /\ charts["contacts"].data[2].r4sq = 100

\* C6: an exception raised while slot k is processed is caught inside
\* initializeAdvancedCharts and never reaches the caller; the slots before k
\* keep the chart or placeholder they were given and the slots after k are
\* not processed: they stay as they were before the call.
C6_ExceptionContained ==
    /\ ~propagated
    /\ caught =>
          /\ failedAt \in Slots
          /\ \A s \in Slots :
                /\ Before(s, failedAt) =>
                      /\ plan[s] \in {"Primary", "Fallback", "Empty"}
                      /\ (plan[s] \in {"Primary", "Fallback"} => ShowsChart(s))
                      /\ (plan[s] = "Empty" =>
                            \/ ShowsPlaceholder(s)
                            \/ (s = "hourly" /\ dom[s] = prevDom[s]))
                /\ Before(failedAt, s) =>
                      /\ plan[s] = "None"
                      /\ dom[s] = prevDom[s]
                      /\ charts[s] = prevCharts[s]

C6_Witness ==
    /\ renders = 1
    /\ caught
    /\ failedAt = "wordcloud"
    /\ dom["hourly"] = "chart"
    /\ dom["contacts"] = "placeholder"
    /\ dom["radar"] = "canvas"
    /\ dom["heatmap"] = "canvas"

\* C7: after the call on a freshly loaded page, whatever the payload, each of
\* the five slots shows either its chart or a placeholder.
C7_ChartOrPlaceholder ==
    (renders = 1) =>
        /\ ~propagated
        /\ \A s \in Slots : ShowsChart(s) \/ ShowsPlaceholder(s)

\* C8: no create* step raises an error for present-but-malformed data: every
\* slot ends with one of Primary, Fallback, Empty and nothing is thrown.
C8_GateNeverThrows ==
    (renders = 1 /\ data.present) =>
        /\ ~caught
        /\ \A s \in Slots : plan[s] \in {"Primary", "Fallback", "Empty"}

HeatMaxOf(items) ==
    CHOOSE m \in {items[i] : i \in 1..Len(items)} :
        \A j \in 1..Len(items) : items[j] <= m

\* C10: in a drawn heat map with maximum m > 0, a cell of value 0 has the
\* neutral colour; a nonzero cell v has intensity min(1, v / (0.7 m)) and is on
\* the blue-to-yellow branch iff 20 v < 7 m, on the yellow-to-red branch
\* otherwise; with a single nonzero value that cell has intensity 1 and the
\* red end colour, and all other cells are neutral.
C10_HeatmapColours ==
    (renders = 1 /\ charts["heatmap"].type = "heatmap") =>
        LET items == data.activity_heatmap.items
            m == HeatMaxOf(items)
            ch == charts["heatmap"]
            single == Cardinality({i \in 1..Len(items) : items[i] /= 0}) = 1
        IN  /\ m > 0
            /\ \A dd \in 1..7 : \A h \in 1..24 :
                  LET v == ch.data[dd][h]
                      col == ch.colors[dd][h]
                  IN  /\ (v = 0) =>
                            (col.branch = "zero" /\ col.rgba = <<240, 240, 240, 5>>)
                      /\ (v /= 0) =>
                            /\ col.branch \in {"blueYellow", "yellowRed"}
                            /\ (col.branch = "blueYellow") = (20 * v < 7 * m)
                            /\ (10 * v >= 7 * m) => col.num = col.den
                            /\ (10 * v < 7 * m) => col.num * 7 * m = col.den * 10 * v
                            /\ (col.branch = "blueYellow") => col.rgba[1] = 54
                            /\ (col.branch = "yellowRed") =>
                                  (col.rgba[1] = 255 /\ col.rgba[3] = 64)
                            /\ single =>
                                  (col.num = col.den /\ col.rgba = <<255, 99, 64, 7>>)

C10_Witness ==
    /\ renders = 1
    /\ charts["heatmap"].type = "heatmap"
    /\ data.activity_heatmap.items = [i \in 1..168 |-> IF i = 25 THEN 20 ELSE 0]
    /\ charts["heatmap"].data[2][1] = 20
    /\ charts["heatmap"].colors[2][1].rgba = <<255, 99, 64, 7>>
    /\ charts["heatmap"].colors[1][1].rgba = <<240, 240, 240, 5>>

\* C11: on a freshly loaded page, absent or zero-length word_cloud is Empty
\* (placeholder); otherwise exactly the first min(n, 20) terms are displayed,
\* in the given order, and the term at display index i (from 0) has palette
\* colour i mod 10.
C11_WordCloudGate ==
    (renders = 1 /\ data.present /\ failedAt \notin {"hourly", "contacts"}) =>
        LET v == data.word_cloud
            n == Len(v.items)
            k == IF n < 20 THEN n ELSE 20
            ch == charts["wordcloud"]
        IN  /\ (~Truthy(v) \/ (IsArray(v) /\ n = 0)) =>
                  /\ plan["wordcloud"] = "Empty"
                  /\ dom["wordcloud"] = "placeholder"
                  /\ ch = NoChart
            /\ (IsArray(v) /\ n > 0 /\ \A i \in 1..k : ~v.items[i].isNull) =>
                  /\ plan["wordcloud"] = "Primary"
                  /\ dom["wordcloud"] = "chart"
                  /\ ch.type = "wordcloud"
                  /\ Len(ch.data) = k
                  /\ \A i \in 1..k :
                        /\ ch.data[i].text = v.items[i].text
                        /\ ch.data[i].color = (i - 1) % 10

C11_Witness ==
    /\ renders = 1
    /\ data.present
    /\ IsArray(data.word_cloud)
    /\ Len(data.word_cloud.items) = 21
    /\ dom["wordcloud"] = "chart"
    /\ Len(charts["wordcloud"].data) = 20
    /\ charts["wordcloud"].data[20].text = 20
    /\ charts["wordcloud"].data[11].color = 0
    /\ charts["wordcloud"].data[20].color = 9

SortedPositive(items) ==
    /\ \A i \in 1..Len(items) : ~items[i].isNull /\ items[i].weight > 0
    /\ \A i \in 1..(Len(items) - 1) : items[i].weight >= items[i + 1].weight

\* C12: for a term list sorted descending by positive weight, each displayed
\* term has fontSize = 14 + 26 * (weight / first weight) and is bold iff
\* 5 * weight > 3 * first weight; the first term has size 40 and is bold; for
\* weights [40, 20] the second term has size 27 and is not bold.
C12_WordCloudFontSize ==
    (renders = 1 /\ dom["wordcloud"] = "chart" /\ IsArray(data.word_cloud)
       /\ SortedPositive(data.word_cloud.items)) =>
        LET items == data.word_cloud.items
            w1 == items[1].weight
            spans == charts["wordcloud"].data
        IN  /\ \A i \in 1..Len(spans) :
                  /\ ~spans[i].nan
                  /\ spans[i].den > 0
                  /\ spans[i].num * w1 = (14 * w1 + 26 * items[i].weight) * spans[i].den
                  /\ spans[i].bold = (5 * items[i].weight > 3 * w1)
            /\ spans[1].num = 40 * spans[1].den
            /\ spans[1].bold
            /\ (Len(items) = 2 /\ items[1].weight = 40 /\ items[2].weight = 20) =>
                  (spans[2].num = 27 * spans[2].den /\ ~spans[2].bold)

C12_Witness ==
    /\ renders = 1
    /\ dom["wordcloud"] = "chart"
    /\ Len(data.word_cloud.items) = 2
    /\ data.word_cloud.items[1].weight = 40
    /\ data.word_cloud.items[2].weight = 20
    /\ charts["wordcloud"].data[1].num = 40 * charts["wordcloud"].data[1].den
    /\ charts["wordcloud"].data[2].num = 27 * charts["wordcloud"].data[2].den
    /\ charts["wordcloud"].data[1].bold
    /\ ~charts["wordcloud"].data[2].bold

\* C13: in the fallback stacked-bar chart a label longer than 15 characters
\* is shown as its first 12 characters followed by "..." (15 characters), a
\* label of at most 15 characters is shown unchanged, and the sent and
\* received sequences have the length of the label sequence and are aligned
\* with it.
C13_LabelTruncation ==
    (renders = 1 /\ charts["contacts"].type = "stackedBar") =>
        LET items == data.contact_data.items
            ch == charts["contacts"]
        IN  /\ Len(ch.data[1]) = Len(ch.labels)
            /\ Len(ch.data[2]) = Len(ch.labels)
            /\ Len(ch.labels) <= Len(items)
            /\ \A i \in 1..Len(ch.labels) :
                  LET l == items[i].label
                  IN  /\ (Len(l) > 15) =>
                            /\ ch.labels[i] = SubSeq(l, 1, 12) \o <<46, 46, 46>>
                            /\ Len(ch.labels[i]) = 15
                      /\ (Len(l) <= 15) => ch.labels[i] = l
                      /\ ch.data[1][i] = OrZero(items[i].sent)
                      /\ ch.data[2][i] = OrZero(items[i].received)

C13_Witness ==
    /\ renders = 1
    /\ charts["contacts"].type = "stackedBar"
    /\ Len(charts["contacts"].labels) = 2
    /\ Len(data.contact_data.items[1].label) = 3
    /\ Len(data.contact_data.items[2].label) = 16
    /\ charts["contacts"].labels[1] = data.contact_data.items[1].label
    /\ Len(charts["contacts"].labels[2]) = 15
    /\ charts["contacts"].labels[2][13] = 46

\* C14: on a freshly loaded page the radar slot is Empty (placeholder, no
\* chart) unless email_metrics, its labels and its datasets are all present;
\* when they are, the branch is Primary and the chart drawn from a sequence
\* of datasets carries the labels and the dataset values unchanged.
C14_RadarGate ==
    (renders = 1 /\ data.present
       /\ failedAt \notin {"hourly", "contacts", "wordcloud"}) =>
        LET m == data.email_metrics
            both == m.kind /= "absent" /\ m.labels.kind /= "absent"
                       /\ m.datasets.kind /= "absent"
            ch == charts["radar"]
        IN  /\ ~both =>
                  /\ plan["radar"] = "Empty"
                  /\ dom["radar"] = "placeholder"
                  /\ ch = NoChart
            /\ both =>
                  /\ plan["radar"] = "Primary"
                  /\ (failedAt = "radar") = (m.datasets.kind /= "array")
                  /\ (m.datasets.kind = "array") =>
                        /\ dom["radar"] = "chart"
                        /\ ch.type = "radar"
                        /\ ch.labels = m.labels.items
                        /\ Len(ch.data) = Len(m.datasets.items)
                        /\ \A i \in 1..Len(ch.data) :
                              /\ ch.data[i].data = m.datasets.items[i].data
                              /\ ch.data[i].label = m.datasets.items[i].label

C14_Witness ==
    /\ renders = 1
    /\ data.present
    /\ dom["radar"] = "chart"
    /\ charts["radar"].type = "radar"
    /\ charts["radar"].labels = <<1, 2>>
    /\ Len(charts["radar"].data) = 3
    /\ charts["radar"].data[3].data = <<1, 2>>

\* C15 as stated: a second call in a row with the identical payload takes,
\* for every slot, the same gate decision and produces the same encoded data
\* as the first call.
C15_SameDecisionAndData ==
    repeated =>
        \A s \in Slots :
            /\ plan[s] = prevPlan[s]
            /\ charts[s] = prevCharts[s]

\* What does hold for C15: after a second call in a row with the identical
\* payload every slot shows the same chart or placeholder with the same
\* encoded data as after the first call, and every slot the second call
\* processes gets the same gate decision; the second call may end early with
\* a caught exception and then decides nothing for the slots after the
\* failing one.
C15_SameDisplay ==
    repeated =>
        /\ ~propagated
        /\ \A s \in Slots :
              /\ dom[s] = prevDom[s]
              /\ charts[s] = prevCharts[s]
              /\ \/ plan[s] = prevPlan[s]
                 \/ plan[s] = "None" /\ caught /\ Before(failedAt, s)

C15_Witness ==
    /\ repeated
    /\ renders = 2
    /\ data.present
    /\ caught
    /\ failedAt = "hourly"
    /\ prevPlan["heatmap"] = "Primary"
    /\ plan["heatmap"] = "None"
    /\ dom["heatmap"] = "chart"
    /\ charts["heatmap"] = prevCharts["heatmap"]
    /\ dom["wordcloud"] = "chart"
    /\ charts["wordcloud"] = prevCharts["wordcloud"]

\* C17: the heat map is 7 rows of 24 values in day-major order: cell (d, h) is
\* data[d * 24 + h], a cell past the end of a shorter input is 0, and for a
\* 168-length input the rows read one after the other give the input back.
C17_HeatmapReshape ==
    (renders = 1 /\ charts["heatmap"].type = "heatmap") =>
        LET items == data.activity_heatmap.items
            rows == charts["heatmap"].data
        IN  /\ Len(rows) = 7
            /\ \A dd \in 0..6 :
                  /\ Len(rows[dd + 1]) = 24
                  /\ \A h \in 0..23 :
                        rows[dd + 1][h + 1] =
                            IF dd * 24 + h + 1 <= Len(items)
                            THEN items[dd * 24 + h + 1] ELSE 0
            /\ (Len(items) = 168) =>
                  [k \in 1..168 |-> rows[((k - 1) \div 24) + 1][((k - 1) % 24) + 1]]
                      = items

C17_Witness ==
    /\ renders = 1
    /\ charts["heatmap"].type = "heatmap"
    /\ Len(data.activity_heatmap.items) = 168
    /\ data.activity_heatmap.items[26] = 26
    /\ charts["heatmap"].data[2][2] = 26
    /\ charts["heatmap"].data[7][24] = 168

RECURSIVE SumBursts(_)
SumBursts(calls) ==
    IF calls = <<>> THEN 0 ELSE calls[1].burst + SumBursts(Tail(calls))

\* C16: at any time at most one deferred callback is pending, and it is the
\* one scheduled by the last event; the wrapped function runs once per burst
\* of k >= 1 events (every event belongs to exactly one call), after the last
\* event of the burst and with that event's arguments; and a pending burst
\* eventually gets its call.
C16_Debounce ==
    /\ [](/\ Cardinality(dTimers) <= 1
          /\ (dTimers /= {}) = (dBurst > 0)
          /\ \A t \in dTimers : t.id = dTimeout /\ t.args = dLastArgs
          /\ \A i \in 1..Len(dCalls) :
                dCalls[i].burst >= 1 /\ dCalls[i].args = dCalls[i].last
          /\ SumBursts(dCalls) + dBurst = dEvents)
    /\ ((dBurst > 0) ~> (dBurst = 0))

C16_Witness ==
    /\ dEvents = 3
    /\ dCalls = <<[args |-> 2, burst |-> 3, last |-> 2]>>
    /\ dTimers = {}
    /\ dBurst = 0

\* C18: a click on the sidebar toggle flips the collapsed state and stores
\* the new state, so right after a click the stored value is 'true' exactly
\* when the sidebar is collapsed; right after a page load a stored 'true'
\* means the sidebar is collapsed.
C18_SidebarToggle ==
    /\ []((lastOp = "toggle") =>
             /\ sidebarPref \in {"true", "false"}
             /\ (sidebarPref = "true") = collapsed)
    /\ []((lastOp = "load" /\ sidebarPref = "true") => collapsed)
    /\ [][(lastOp' = "toggle") => (collapsed' = ~collapsed)]_vars

C18_Witness ==
    /\ lastOp = "toggle"
    /\ width >= breakpoint
    /\ collapsed
    /\ sidebarPref = "true"
    /\ lastChange = "off"

\* C19: after any sequence of changes of the dark-mode switch the stored
\* value, the data-bs-theme attribute and the body class agree with the
\* checked state of the switch, and on every later page load the page is dark
\* (switch checked, dark theme, class set) exactly when the last change
\* enabled it.
C19_DarkModeRoundTrip ==
    /\ (lastOp = "dark") =>
          /\ darkPref = (IF darkChecked THEN "true" ELSE "false")
          /\ theme = (IF darkChecked THEN "dark" ELSE "light")
          /\ darkClass = darkChecked
    /\ (loaded /\ lastChange /= "none") =>
          /\ darkChecked = (lastChange = "on")
          /\ (theme = "dark") = (lastChange = "on")
          /\ darkClass = (lastChange = "on")
          /\ (darkPref = "true") = (lastChange = "on")

C19_Witness ==
    /\ loaded
    /\ lastOp = "load"
    /\ lastChange = "on"
    /\ darkChecked
    /\ theme = "dark"
    /\ darkClass
    /\ darkPref = "true"

\* C20: on the loaded page, whenever the stored sidebarCollapsed value is
\* 'true' the sidebar is collapsed; right after a layout pass (at load or
\* after a resize) at width >= 992 the sidebar is collapsed iff the stored
\* value is 'true', and right after a pass at width < 992 it is collapsed.
C20_SidebarInvariant ==
    /\ (loaded /\ sidebarPref = "true") => collapsed
    /\ (lastOp \in {"load", "layout"} /\ width >= 992) =>
          (collapsed = (sidebarPref = "true"))
    /\ (lastOp \in {"load", "layout"} /\ width < 992) => collapsed

C20_Witness ==
    /\ lastOp = "layout"
    /\ width >= breakpoint
    /\ sidebarPref = "true"
    /\ collapsed
    /\ lastChange = "none"

\* C21: after the change handler of include_sent or include_received has run
\* at least one of the two boxes is checked; the box the user flipped keeps
\* the user's value, and the other box is checked by the handler exactly when
\* the user unchecked the last checked box (otherwise it is left alone).
C21_OneBoxChecked ==
    /\ (formOp \in {"sent", "received"}) => (incSent \/ incReceived)
    /\ (formOp = "sent") =>
          /\ incSent = ~prevSent
          /\ incReceived = (prevReceived \/ ~incSent)
          /\ alerted = (~incSent /\ ~prevReceived)
    /\ (formOp = "received") =>
          /\ incReceived = ~prevReceived
          /\ incSent = (prevSent \/ ~incReceived)
          /\ alerted = (~incReceived /\ ~prevSent)

C21_Witness ==
    /\ formOp = "sent"
    /\ prevSent
    /\ ~prevReceived
    /\ ~incSent
    /\ incReceived
    /\ alerted

\* C22: after the change handler of either date input has run, two non-empty
\* dates satisfy end >= start; on a violation only the field just changed is
\* cleared and the other keeps its value; without a violation the changed
\* field keeps the value the user gave it and the other keeps its value.
C22_DateRange ==
    /\ (formOp \in {"start", "end"} /\ startDate /= NoDate /\ endDate /= NoDate) =>
          endDate >= startDate
    /\ (formOp = "end") =>
          LET violation == prevStart /= NoDate /\ typed /= NoDate /\ typed < prevStart
          IN  /\ startDate = prevStart
              /\ endDate = (IF violation THEN NoDate ELSE typed)
              /\ alerted = violation
    /\ (formOp = "start") =>
          LET violation == prevEnd /= NoDate /\ typed /= NoDate /\ prevEnd < typed
          IN  /\ endDate = prevEnd
              /\ startDate = (IF violation THEN NoDate ELSE typed)
              /\ alerted = violation

C22_Witness ==
    /\ formOp = "start"
    /\ prevEnd = 2
    /\ typed = 3
    /\ startDate = NoDate
    /\ endDate = 2
    /\ alerted

\* C23: for every list of terms with positive weights, sorted or not, the
\* font size of every displayed term is between fontSizeMin = 14 and
\* fontSizeMax = 40.
C23_FontSizeWithinBounds ==
    (renders = 1 /\ dom["wordcloud"] = "chart" /\ IsArray(data.word_cloud)
       /\ \A i \in 1..Len(data.word_cloud.items) :
             ~data.word_cloud.items[i].isNull /\ data.word_cloud.items[i].weight > 0) =>
        \A i \in 1..Len(charts["wordcloud"].data) :
            LET span == charts["wordcloud"].data[i]
            IN  /\ ~span.nan
                /\ 14 * span.den <= span.num
                /\ span.num <= 40 * span.den

\* C24: the bubble radius is non-decreasing in the total sent + received, is
\* the floor 5 for every total <= 11 and the ceiling 15 for every total >= 100
\* (the radius r is carried as 4*r*r: 100 is r = 5, 900 is r = 15).
C24_RadiusMonotone ==
    (renders = 1 /\ charts["contacts"].type = "bubble") =>
        LET pts == charts["contacts"].data
            items == data.contact_data.items
        IN  \A i \in 1..Len(pts) :
                LET total == OrZero(items[i].sent) + OrZero(items[i].received)
                IN  /\ (total <= 11) => pts[i].r4sq = 100
                    /\ (total >= 100) => pts[i].r4sq = 900
                    /\ \A j \in 1..Len(pts) :
                          (total <= OrZero(items[j].sent) + OrZero(items[j].received))
                              => pts[i].r4sq <= pts[j].r4sq

C24_Witness ==
    /\ renders = 1
    /\ charts["contacts"].type = "bubble"
    /\ Len(charts["contacts"].data) = 2
    /\ data.contact_data.items[1].sent = 100
    /\ data.contact_data.items[2].sent = 300
    /\ charts["contacts"].data[1].r4sq = 900
    /\ charts["contacts"].data[2].r4sq = 900
    /\ charts["contacts"].data[1].x = 100
    /\ charts["contacts"].data[2].x = 300

====
